---- MODULE Spec2Model ----
(***************************************************************************)
(* Windowing preprocessor of the rotbaum tree forecaster                   *)
(* (src/src/gluonts/model/rotbaum/_preprocess.py): PreprocessGeneric and   *)
(* PreprocessOnlyLagFeatures.                                              *)
(*                                                                         *)
(* Conventions.                                                            *)
(*  - A time series is its "target" sequence; Python index k is TLA+       *)
(*    index k + 1.                                                         *)
(*  - Python None is the empty tuple None; a value v that may be None is   *)
(*    held as the one-element tuple Some(v).                               *)
(*  - Real numbers in feature vectors are exact fractions <<num, den>>     *)
(*    with the window length as denominator: 0/0 is numpy's nan.  The      *)
(*    standard deviation is held by its square (the variance).             *)
(*  - An exception is the name of its class in err ("none": no exception). *)
(***************************************************************************)
EXTENDS Integers, Sequences, FiniteSets, TLC

VARIABLES
    constructed,          \* a PreprocessOnlyLagFeatures object exists
    context_window_size,  \* self.context_window_size
    forecast_horizon,     \* self.forecast_horizon
    stratify_targets,     \* self.stratify_targets
    n_ignore_last,        \* self.n_ignore_last
    kwargs,               \* self.kwargs (the num_samples keyword it receives)
    num_samples,          \* self.num_samples
    feature_data,         \* self.feature_data
    target_data,          \* self.target_data
    op,                   \* the last operation called
    arg,                  \* its input
    ret,                  \* what it returned
    err,                  \* the exception it raised, "none" if it returned
    mf_calls              \* number of make_features invocations it made

vars == <<constructed, context_window_size, forecast_horizon, stratify_targets,
          n_ignore_last, kwargs, num_samples, feature_data, target_data,
          op, arg, ret, err, mf_calls>>

fields == <<context_window_size, forecast_horizon, stratify_targets,
            n_ignore_last, kwargs, num_samples, feature_data, target_data>>

---------------------------------------------------------------------------
(* Bounds of the model. *)

MinC == 2        \* smallest context_window_size constructed
MaxC == 2        \* largest context_window_size constructed
MaxH == 2        \* largest forecast_horizon constructed
MaxIgnore == 1   \* largest n_ignore_last constructed
MaxLen == 5      \* longest series passed to preprocess_from_single_ts
MaxSeed == 1     \* states of the random generator at the start of a call

---------------------------------------------------------------------------
(* Python values. *)

None == <<>>
Some(v) == <<v>>

Max2(a, b) == IF a >= b THEN a ELSE b
Min2(a, b) == IF a <= b THEN a ELSE b

\* Python's normalisation of a slice bound against a sequence of length n.
SliceBound(k, n) == IF k < 0 THEN Max2(k + n, 0) ELSE Min2(k, n)

\* Python's seq[lo:hi] (lo, hi are Python indices, possibly negative).
PySlice(seq, lo, hi) ==
    LET l == SliceBound(lo, Len(seq))
        h == SliceBound(hi, Len(seq))
    IN  [i \in 1..Max2(h - l, 0) |-> seq[l + i]]

\* Python's seq[k] is defined for -len <= k < len, else IndexError.
PyIndexOk(seq, k) == k >= -Len(seq) /\ k < Len(seq)
PyIndex(seq, k) == IF k < 0 THEN seq[k + Len(seq) + 1] ELSE seq[k + 1]

RECURSIVE SumSeq(_)
SumSeq(s) == IF s = <<>> THEN 0 ELSE Head(s) + SumSeq(Tail(s))

RECURSIVE SumSq(_)
SumSq(s) == IF s = <<>> THEN 0 ELSE Head(s) * Head(s) + SumSq(Tail(s))

\* np.random.randint(n): the generator's state at the start of a call is the
\* unknown seed; its k-th draw of the call (k from 0) lies in 0..n-1.
randint(n, seed, k) == (seed + k) % n

---------------------------------------------------------------------------
(* PreprocessOnlyLagFeatures._pre_transform and make_features. *)

\* (window - mean, {"mean", "std", "n_lag_features"}) as one list, in order.
pre_transform(time_series_window) ==
    LET n == Len(time_series_window)
        total == SumSeq(time_series_window)
    IN  [lags |-> [i \in 1..n |-> <<n * time_series_window[i] - total, n>>],
         stats |-> << <<total, n>>,
                      <<n * SumSq(time_series_window) - total * total, n * n>>,
                      <<n, 1>> >>]

make_features(target, starting_index) ==
    LET end_index == starting_index + context_window_size
        prefix == IF starting_index < 0
                  THEN [i \in 1..(-starting_index) |-> None]
                  ELSE <<>>
        time_series_window == PySlice(target, starting_index, end_index)
        t == pre_transform(time_series_window)
    IN  prefix \o t.lags \o t.stats

---------------------------------------------------------------------------
(* PreprocessGeneric.preprocess_from_single_ts. *)

\* time_series["target"][: -self.n_ignore_last] when n_ignore_last > 0.
altered_time_series(target) ==
    IF n_ignore_last > 0 THEN PySlice(target, 0, -n_ignore_last) ELSE target

\* Without the + 1: the last valid window is lost.
max_num_context_windows_short(altered) ==
    Len(altered) - context_window_size - forecast_horizon

max_num_context_windows(altered) ==
    Len(altered) - context_window_size - forecast_horizon + 1

\* Draws from 0..max_windows, upper bound included.
locations_inclusive(ns, max_windows, seed, pos) ==
    IF ns > 0
    THEN [i \in 1..ns |-> randint(max_windows + 1, seed, pos + i - 1)]
    ELSE [i \in 1..max_windows |-> i - 1]

\* The start indices visited, given self.num_samples = ns (an integer), the
\* generator's seed and the number pos of draws already made in this call.
locations(ns, max_windows, seed, pos) ==
    IF ns > 0
    THEN [i \in 1..ns |-> randint(max_windows, seed, pos + i - 1)]
    ELSE [i \in 1..max_windows |-> i - 1]

\* Every stratified sample reads the first target of the horizon.
stratified_target_index_first(starting_index, forecast_horizon_index) ==
    starting_index + context_window_size

\* Index of time_series["target"] read for the stratified sample at
\* starting_index and forecast_horizon_index.
stratified_target_index(starting_index, forecast_horizon_index) ==
    starting_index + context_window_size + forecast_horizon_index

\* The slice of time_series["target"] taken as the non-stratified target.
target_slice(target, starting_index) ==
    PySlice(target,
            starting_index + context_window_size,
            starting_index + context_window_size + forecast_horizon)

\* The body of the loop over locations (lines 162-191): the samples appended
\* for one starting_index, in order.  ok is FALSE where the read of
\* time_series["target"] raises IndexError.
window_samples(target, altered, starting_index) ==
    IF stratify_targets
    THEN [j \in 1..forecast_horizon |->
             LET k == stratified_target_index(starting_index, j - 1)
             IN  [feature |-> Append(make_features(altered, starting_index),
                                     <<j - 1, 1>>),
                  target |-> IF PyIndexOk(target, k)
                             THEN <<PyIndex(target, k)>> ELSE <<>>,
                  ok |-> PyIndexOk(target, k)]]
    ELSE << [feature |-> make_features(altered, starting_index),
             target |-> target_slice(target, starting_index),
             ok |-> TRUE] >>

\* The loop over locations.  The loop body is a pure function of the start
\* index, so it is computed once for each start index up to the largest one
\* visited (body_table); with m the number of samples a window yields, the
\* k-th sample appended is sample (k - 1) % m of location (k - 1) \div m.
samples_per_window == IF stratify_targets THEN forecast_horizon ELSE 1

body_table(target, altered, top) ==
    <<>> \o [q \in 1..((top + 1) * samples_per_window) |->
                window_samples(target, altered, (q - 1) \div samples_per_window)
                    [((q - 1) % samples_per_window) + 1]]

collect(body, locs, at) ==
    IF \E i \in DOMAIN locs : \E j \in 1..samples_per_window :
           ~body[locs[i] * samples_per_window + j].ok
    THEN [feature_data |-> <<>>, target_data |-> <<>>,
          err |-> "IndexError", draws |-> 0, calls |-> Len(locs)]
    ELSE [feature_data |->
              [k \in DOMAIN at |-> body[at[k]].feature],
          target_data |->
              [k \in DOMAIN at |-> body[at[k]].target],
          err |-> "none", draws |-> 0, calls |-> Len(locs)]

Largest(set) == CHOOSE s \in set : \A v \in set : v <= s

samples(target, altered, locs) ==
    collect(body_table(target, altered,
                       Largest({locs[i] : i \in DOMAIN locs})),
            locs,
            <<>> \o [k \in 1..(Len(locs) * samples_per_window) |->
                        locs[((k - 1) \div samples_per_window) + 1]
                            * samples_per_window
                        + ((k - 1) % samples_per_window) + 1])

NoSamples(exception) ==
    [feature_data |-> <<>>, target_data |-> <<>>,
     err |-> exception, draws |-> 0, calls |-> 0]

\* self.num_samples > 0 evaluated before the early return.
windows_of_late_return(target, altered, max_windows, ns, seed, pos) ==
    IF ns = None THEN NoSamples("TypeError")
    ELSE IF max_windows < 1 THEN NoSamples("none")
    ELSE [samples(target, altered,
                  <<>> \o locations(ns[1], max_windows, seed, pos))
             EXCEPT !.draws = IF ns[1] > 0 THEN ns[1] ELSE 0]

\* Lines 146-192, with altered_time_series and max_num_context_windows
\* computed: self.num_samples is ns (None or Some(n)).
windows_of(target, altered, max_windows, ns, seed, pos) ==
    IF max_windows < 1 THEN NoSamples("none")
    ELSE IF ns = None THEN NoSamples("TypeError")
    ELSE [samples(target, altered,
                  <<>> \o locations(ns[1], max_windows, seed, pos))
             EXCEPT !.draws = IF ns[1] > 0 THEN ns[1] ELSE 0]

altered_windows(target, altered, ns, seed, pos) ==
    windows_of(target, altered, max_num_context_windows(altered),
               ns, seed, pos)

\* Result of preprocess_from_single_ts on time_series["target"] = target with
\* self.num_samples = ns: the two lists, the exception, the number of random
\* draws and the number of make_features calls.
preprocess_from_single_ts(target, ns, seed, pos) ==
    altered_windows(target, altered_time_series(target), ns, seed, pos)

---------------------------------------------------------------------------
(* PreprocessGeneric.get_num_samples. *)

SamplesTotal == 400000   \* the 400000 of 400000 // n_time_series
SamplesPerSeries == 1000 \* the 1000 of n_time_series * 1000

\* n_time_series taken as the length of the list.
n_time_series_all(ts_list) == Len(ts_list)

\* sum of the booleans len(target) - c - h >= 0 over ts_list.
n_time_series(ts_list) ==
    Cardinality({i \in DOMAIN ts_list :
                    Len(ts_list[i]) - context_window_size - forecast_horizon
                        >= 0})

\* max of the lengths (ts_list not empty).
max_size_ts(ts_list) == Largest({Len(ts_list[i]) : i \in DOMAIN ts_list})

\* The chain with independent ifs: the max_size test applies after the cap.
windows_chain_ifs(n_series, n, max_size) ==
    LET capped == IF n_series * SamplesPerSeries < n
                  THEN n_series * SamplesPerSeries ELSE n
        floored == IF capped = 0 THEN 1 ELSE capped
    IN  IF floored > max_size THEN -1 ELSE floored

\* The if / elif / elif chain on n = 400000 // n_series.
windows_chain(n_series, n, max_size) ==
    IF n_series * SamplesPerSeries < n THEN n_series * SamplesPerSeries
    ELSE IF n = 0 THEN 1
    ELSE IF n > max_size THEN -1
    ELSE n

n_windows_per_time_series(n_series, max_size) ==
    windows_chain(n_series, SamplesTotal \div n_series, max_size)

\* The division guarded: no eligible series gives 0 windows per series.
num_samples_of_guarded(ts_list, n_series) ==
    IF ts_list = <<>> THEN [err |-> "ValueError", value |-> 0]
    ELSE IF n_series = 0 THEN [err |-> "none", value |-> 0]
    ELSE [err |-> "none",
          value |-> n_windows_per_time_series(n_series, max_size_ts(ts_list))]

\* max([]) raises ValueError, 400000 // 0 raises ZeroDivisionError.
num_samples_of(ts_list, n_series) ==
    IF ts_list = <<>> THEN [err |-> "ValueError", value |-> 0]
    ELSE IF n_series = 0 THEN [err |-> "ZeroDivisionError", value |-> 0]
    ELSE [err |-> "none",
          value |-> n_windows_per_time_series(n_series, max_size_ts(ts_list))]

get_num_samples(ts_list) == num_samples_of(ts_list, n_time_series(ts_list))

---------------------------------------------------------------------------
(* PreprocessGeneric.preprocess_from_list. *)

\* The loop over ts_list from its i-th series on: acc holds the two lists
\* collected so far and the number of random draws made; r is the result of
\* preprocess_from_single_ts on the i-th series.
RECURSIVE collate(_, _, _, _, _)
\* The lists of a series put in front of those collected so far.
collate_step_prepend(ts_list, i, ns, seed, acc, r) ==
    IF r.err # "none"
    THEN [acc EXCEPT !.err = r.err]
    ELSE collate(ts_list, i + 1, ns, seed,
                 [feature_data |-> r.feature_data \o acc.feature_data,
                  target_data |-> r.target_data \o acc.target_data,
                  err |-> "none",
                  draws |-> acc.draws + r.draws,
                  calls |-> acc.calls + r.calls])

collate_step(ts_list, i, ns, seed, acc, r) ==
    IF r.err # "none"
    THEN [acc EXCEPT !.err = r.err]
    ELSE collate(ts_list, i + 1, ns, seed,
                 [feature_data |-> acc.feature_data \o r.feature_data,
                  target_data |-> acc.target_data \o r.target_data,
                  err |-> "none",
                  draws |-> acc.draws + r.draws,
                  calls |-> acc.calls + r.calls])

collate(ts_list, i, ns, seed, acc) ==
    IF i > Len(ts_list) THEN acc
    ELSE collate_step(ts_list, i, ns, seed, acc,
             preprocess_from_single_ts(ts_list[i], ns, seed, acc.draws))

\* Lines 216-223 once get_num_samples has answered g: assigned is the value
\* given to self.num_samples (None if get_num_samples raised).
collated(ts_list, seed, g) ==
    IF g.err # "none"
    THEN [assigned |-> None, lists |-> NoSamples(g.err)]
    ELSE [assigned |-> Some(g.value),
          lists |-> collate(ts_list, 1, Some(g.value), seed, NoSamples("none"))]

preprocess_from_list(ts_list, seed) ==
    collated(ts_list, seed, get_num_samples(ts_list))

---------------------------------------------------------------------------
(* Inputs. *)

ManySeries == 20  \* length of a long run of equal series in a collection

\* The series of length n used as input, in variant v: the values within a
\* series are distinct, and so are those of two variants at the same index.
Series(n, v) == [i \in 1..n |-> i * i + v]

\* A collection is given as runs [len, count] of series of equal length;
\* ts_list is its expansion to the list of targets.
\* The series at position i of the list has variant i.
RECURSIVE ExpandFrom(_, _)
ExpandFrom(groups, done) ==
    IF groups = <<>> THEN <<>>
    ELSE [i \in 1..Head(groups).count |-> Series(Head(groups).len, done + i)]
             \o ExpandFrom(Tail(groups), done + Head(groups).count)

Expand(groups) == ExpandFrom(groups, 0)

ListLens == {MinC, MaxLen}
ListCounts == {1, ManySeries}
\* The collections passed in Spec: the empty one, and one run of series.
Collections == {<<>>} \cup {<<g>> : g \in [len : ListLens, count : ListCounts]}

\* The arguments of a call: the collection (as runs), the series, the
\* change_internal_variables flag, the generator's seed, and for __init__
\* the forecast_horizon, stratify_targets and num_samples it was given; for
\* make_features the starting_index. A return value is None, an int, the
\* tuple of the two lists, or the feature list of make_features.
NoArg == [ts_list |-> <<>>, time_series |-> <<>>, flag |-> FALSE, seed |-> 0,
          horizon |-> 0, stratify |-> FALSE, samples |-> 0,
          starting_index |-> 0]
NoRet == [kind |-> "None", value |-> 0, feature_data |-> <<>>,
          target_data |-> <<>>, features |-> <<>>]

---------------------------------------------------------------------------
(* State machine. *)

Init ==
    /\ constructed = FALSE
    /\ context_window_size = 0
    /\ forecast_horizon = 0
    /\ stratify_targets = FALSE
    /\ n_ignore_last = 0
    /\ kwargs = None
    /\ num_samples = None
    /\ feature_data = None
    /\ target_data = None
    /\ op = "start"
    /\ arg = NoArg
    /\ ret = NoRet
    /\ err = "none"
    /\ mf_calls = 0

\* The assertion with "or" for "and".
init_accepts_either(stratify, horizon) == ~(stratify \/ horizon = 1)

\* The assertion of PreprocessGeneric.__init__.
init_accepts(stratify, horizon) == ~(stratify /\ horizon = 1)

\* PreprocessOnlyLagFeatures(c, h, stratify, ignore, num_samples = n): the
\* num_samples keyword reaches PreprocessGeneric.__init__ inside **kwargs.
Construct(c, h, stratify, ignore, n) ==
    /\ ~constructed
    /\ op' = "__init__"
    /\ arg' = [NoArg EXCEPT !.horizon = h, !.stratify = stratify,
                            !.samples = n]
    /\ ret' = NoRet
    /\ mf_calls' = 0
    /\ IF init_accepts(stratify, h)
       THEN /\ constructed' = TRUE
            /\ context_window_size' = c
            /\ forecast_horizon' = h
            /\ stratify_targets' = stratify
            /\ n_ignore_last' = ignore
            /\ kwargs' = Some(n)
            /\ num_samples' = None
            /\ feature_data' = None
            /\ target_data' = None
            /\ err' = "none"
       ELSE /\ err' = "AssertionError"
            /\ UNCHANGED <<constructed, fields>>

Returned(r) ==
    IF r.err = "none"
    THEN [NoRet EXCEPT !.kind = "tuple",
                       !.feature_data = r.feature_data,
                       !.target_data = r.target_data]
    ELSE NoRet

SingleTsOutcome(r) ==
    /\ err' = r.err
    /\ mf_calls' = r.calls
    /\ ret' = Returned(r)

PreprocessFromSingleTs(n, seed) ==
    /\ constructed
    /\ op' = "preprocess_from_single_ts"
    /\ arg' = [NoArg EXCEPT !.time_series = Series(n, 0), !.seed = seed]
    /\ SingleTsOutcome(preprocess_from_single_ts(Series(n, 0), num_samples,
                                                 seed, 0))
    /\ UNCHANGED <<constructed, fields>>

NumSamplesOutcome(g) ==
    /\ err' = g.err
    /\ ret' = IF g.err = "none"
              THEN [NoRet EXCEPT !.kind = "int", !.value = g.value]
              ELSE NoRet

GetNumSamples(groups) ==
    /\ constructed
    /\ op' = "get_num_samples"
    /\ arg' = [NoArg EXCEPT !.ts_list = groups]
    /\ NumSamplesOutcome(get_num_samples(Expand(groups)))
    /\ mf_calls' = 0
    /\ UNCHANGED <<constructed, fields>>

\* Lines 217 and 229-232: self.num_samples is assigned before the loop, the
\* lists are stored or returned after it.
ListOutcome(r, change_internal_variables) ==
    /\ err' = r.lists.err
    /\ mf_calls' = r.lists.calls
    /\ num_samples' = IF r.assigned = None THEN num_samples ELSE r.assigned
    /\ IF r.lists.err = "none" /\ change_internal_variables
       THEN /\ feature_data' = Some(r.lists.feature_data)
            /\ target_data' = Some(r.lists.target_data)
            /\ ret' = NoRet
       ELSE /\ UNCHANGED <<feature_data, target_data>>
            /\ ret' = Returned(r.lists)

PreprocessFromList(groups, flag, seed) ==
    /\ constructed
    /\ op' = "preprocess_from_list"
    /\ arg' = [NoArg EXCEPT !.ts_list = groups, !.flag = flag, !.seed = seed]
    /\ ListOutcome(preprocess_from_list(Expand(groups), seed), flag)
    /\ UNCHANGED <<constructed, context_window_size, forecast_horizon,
                   stratify_targets, n_ignore_last, kwargs>>

Next ==
    \/ \E c \in MinC..MaxC, h \in {1, MaxH}, stratify \in BOOLEAN,
          ignore \in {0, MaxIgnore}, n \in {100} :
          Construct(c, h, stratify, ignore, n)
    \/ \E n \in 0..MaxLen, seed \in 0..MaxSeed :
          PreprocessFromSingleTs(n, seed)
    \/ \E groups \in Collections : GetNumSamples(groups)
    \/ \E groups \in Collections, flag \in BOOLEAN, seed \in 0..MaxSeed :
          PreprocessFromList(groups, flag, seed)

Spec == Init /\ [][Next]_vars

---------------------------------------------------------------------------
(* get_num_samples as a function of the collection: a constructed          *)
(* preprocessor and a collection are drawn, get_num_samples is applied.    *)

HeurLens == {MinC, MinC + 1, 10}
HeurCounts == {1, ManySeries - 1, ManySeries, SamplesTotal \div 10,
               SamplesTotal + 1}

\* One run of series alone, or a run of at most ManySeries series with one
\* more series before or after it.
HeurCollections ==
    LET runs == [len : HeurLens, count : HeurCounts]
        short == {g \in runs : g.count <= ManySeries}
        ones == [len : HeurLens, count : {1}]
    IN  {<<>>} \cup {<<g>> : g \in runs}
               \cup {<<g, o>> : g \in short, o \in ones}
               \cup {<<o, g>> : g \in short, o \in ones}

InitHeur ==
    /\ constructed = TRUE
    /\ context_window_size \in MinC..MaxC
    /\ forecast_horizon \in 1..MaxH
    /\ stratify_targets \in BOOLEAN
    /\ init_accepts(stratify_targets, forecast_horizon)
    /\ n_ignore_last \in 0..MaxIgnore
    /\ kwargs = Some(-1)
    /\ num_samples = None
    /\ feature_data = None
    /\ target_data = None
    /\ op = "start"
    /\ arg \in {[NoArg EXCEPT !.ts_list = g] : g \in HeurCollections}
    /\ ret = NoRet
    /\ err = "none"
    /\ mf_calls = 0

NextHeur == op = "start" /\ GetNumSamples(arg.ts_list)

SpecHeur == InitHeur /\ [][NextHeur]_vars

---------------------------------------------------------------------------
(* make_features as a function of the series and the starting index: a     *)
(* constructed preprocessor, a series and an index are drawn, and          *)
(* PreprocessOnlyLagFeatures.make_features is applied.                     *)

\* make_features(time_series, starting_index): no statement of it raises (a
\* slice is defined for all bounds, the mean of an empty window is nan).
MakeFeatures(target, starting_index) ==
    /\ constructed
    /\ op' = "make_features"
    /\ arg' = [NoArg EXCEPT !.time_series = target,
                            !.starting_index = starting_index]
    /\ ret' = [NoRet EXCEPT !.kind = "list",
                            !.features = make_features(target, starting_index)]
    /\ err' = "none"
    /\ mf_calls' = 1
    /\ UNCHANGED <<constructed, fields>>

InitFeat ==
    /\ constructed = TRUE
    /\ context_window_size \in MinC..MaxLen
    /\ forecast_horizon = 1
    /\ stratify_targets = FALSE
    /\ n_ignore_last = 0
    /\ kwargs = Some(-1)
    /\ num_samples = None
    /\ feature_data = None
    /\ target_data = None
    /\ op = "start"
    /\ arg \in {[NoArg EXCEPT !.time_series = Series(n, 0),
                              !.starting_index = s] :
                   n \in 0..MaxLen, s \in (-MaxLen)..MaxLen}
    /\ ret = NoRet
    /\ err = "none"
    /\ mf_calls = 0

NextFeat ==
    op = "start" /\ MakeFeatures(arg.time_series, arg.starting_index)

SpecFeat == InitFeat /\ [][NextFeat]_vars

---------------------------------------------------------------------------
(* preprocess_from_list on collections of any size, keeping of the two     *)
(* lists it builds only their common length.  The collection is handled by *)
(* its runs: the series of a run have one length, and the number of        *)
(* samples a series contributes depends on its length only.                *)

\* num_samples samples for each window instead of for the series.
len_from_single_ts_per_window(length, ns) ==
    LET altered_length == IF n_ignore_last > 0
                          THEN Max2(length - n_ignore_last, 0) ELSE length
        max_windows == altered_length - context_window_size
                           - forecast_horizon + 1
    IN  IF max_windows < 1 THEN 0
        ELSE (IF ns > 0 THEN ns * max_windows ELSE max_windows)
                 * samples_per_window

\* Lines 137-192: the number of samples preprocess_from_single_ts returns
\* for a series of the given length when self.num_samples = ns.
len_from_single_ts(length, ns) ==
    LET altered_length == IF n_ignore_last > 0
                          THEN Max2(length - n_ignore_last, 0) ELSE length
        max_windows == altered_length - context_window_size
                           - forecast_horizon + 1
    IN  IF max_windows < 1 THEN 0
        ELSE (IF ns > 0 THEN ns ELSE max_windows) * samples_per_window

\* Lines 218-223: the length of feature_data after the loop over ts_list.
RECURSIVE len_from_list(_, _)
len_from_list(groups, ns) ==
    IF groups = <<>> THEN 0
    ELSE Head(groups).count * len_from_single_ts(Head(groups).len, ns)
             + len_from_list(Tail(groups), ns)

LengthsOutcome(groups, g) ==
    /\ err' = g.err
    /\ num_samples' = IF g.err = "none" THEN Some(g.value) ELSE num_samples
    /\ ret' = IF g.err = "none"
              THEN [NoRet EXCEPT !.kind = "lengths",
                                 !.value = len_from_list(groups, g.value)]
              ELSE NoRet

\* preprocess_from_list(ts_list, change_internal_variables=False), the
\* returned lists given by their length.
PreprocessFromListLengths(groups) ==
    /\ constructed
    /\ op' = "preprocess_from_list"
    /\ arg' = [NoArg EXCEPT !.ts_list = groups]
    /\ LengthsOutcome(groups, get_num_samples(Expand(groups)))
    /\ mf_calls' = 0
    /\ UNCHANGED <<constructed, context_window_size, forecast_horizon,
                   stratify_targets, n_ignore_last, kwargs, feature_data,
                   target_data>>

NextVolume == op = "start" /\ PreprocessFromListLengths(arg.ts_list)

SpecVolume == InitHeur /\ [][NextVolume]_vars

---------------------------------------------------------------------------
(* Properties. *)

\* The collection of the last call, read off its runs: the number of series
\* of length >= context_window_size + forecast_horizon, the number of series
\* and the length of the longest one.
RECURSIVE EligibleIn(_)
EligibleIn(groups) ==
    IF groups = <<>> THEN 0
    ELSE (IF Head(groups).len >= context_window_size + forecast_horizon
          THEN Head(groups).count ELSE 0) + EligibleIn(Tail(groups))

LongestIn(groups) ==
    CHOOSE m \in {groups[i].len : i \in DOMAIN groups} :
        \A i \in DOMAIN groups : groups[i].len <= m

\* The reference computation of claim C3.
Reference(k, m, n) ==
    IF k * 1000 < n THEN k * 1000
    ELSE IF n = 0 THEN 1
    ELSE IF n > m THEN -1
    ELSE n

\* C3: for every collection with at least one eligible series,
\* get_num_samples returns the reference computation on k eligible series,
\* longest length m and n = 400000 // k, and never 0.
C3_Heuristic ==
    (op = "get_num_samples" /\ EligibleIn(arg.ts_list) >= 1) =>
        /\ err = "none"
        /\ ret.kind = "int"
        /\ ret.value = Reference(EligibleIn(arg.ts_list),
                                 LongestIn(arg.ts_list),
                                 400000 \div EligibleIn(arg.ts_list))
        /\ ret.value # 0

\* A call on more than 400000 eligible series, answered 1.
C3_Witness ==
    /\ op = "get_num_samples"
    /\ EligibleIn(arg.ts_list) > 400000
    /\ err = "none"
    /\ ret.value = 1

\* C4 as stated: one eligible series and longest length 10 yield -1.
C4_Original ==
    (op = "get_num_samples" /\ EligibleIn(arg.ts_list) = 1
                            /\ LongestIn(arg.ts_list) = 10) =>
        (err = "none" /\ ret.value = -1)

\* C4 amended: one eligible series and longest length 10 yield 1000, the cap
\* n_time_series * 1000; the max_size_ts test is not tried after the cap.
C4_Amended ==
    (op = "get_num_samples" /\ EligibleIn(arg.ts_list) = 1
                            /\ LongestIn(arg.ts_list) = 10) =>
        (err = "none" /\ ret.kind = "int" /\ ret.value = 1000)

C4_Witness ==
    /\ op = "get_num_samples"
    /\ EligibleIn(arg.ts_list) = 1
    /\ LongestIn(arg.ts_list) = 10
    /\ err = "none"


---------------------------------------------------------------------------
(* Properties of preprocess_from_single_ts, read off the state its call    *)
(* leaves: arg.time_series is the series, ret the two lists returned.      *)

Target == arg.time_series

\* The series without its last n_ignore_last points.
Trimmed == SubSeq(Target, 1, Len(Target) - n_ignore_last)

\* max(0, L - n_ignore_last - context_window_size - forecast_horizon + 1)
Windows ==
    Max2(0, Len(Target) - n_ignore_last - context_window_size
                - forecast_horizon + 1)

RECURSIVE SumFrom(_, _, _)
SumFrom(seq, lo, hi) == IF lo > hi THEN 0 ELSE seq[lo] + SumFrom(seq, lo + 1, hi)

\* The c mean-centred values of the window starting at index i.
CentredWindow(i) ==
    [q \in 1..context_window_size |->
        <<context_window_size * Target[i + q]
              - SumFrom(Target, i + 1, i + context_window_size),
          context_window_size>>]

\* The forecast_horizon values after the window starting at index i.
HorizonAfter(i) ==
    [j \in 1..forecast_horizon |-> Target[i + context_window_size + j]]

\* C1: in enumeration mode (num_samples <= 0, no stratification) a series of
\* length L yields max(0, L - n_ignore_last - c - h + 1) samples; the i-th is
\* built from the window starting at i, its target is target[i+c .. i+c+h-1],
\* which lies before the n_ignore_last trimmed points.
C1_Enumeration ==
    (/\ op = "preprocess_from_single_ts"
     /\ num_samples # None
     /\ num_samples[1] <= 0
     /\ ~stratify_targets) =>
        /\ err = "none"
        /\ Len(ret.feature_data) = Windows
        /\ Len(ret.target_data) = Windows
        /\ \A i \in 0..(Windows - 1) :
              /\ i + context_window_size + forecast_horizon
                     <= Len(Target) - n_ignore_last
              /\ ret.target_data[i + 1] = HorizonAfter(i)
              /\ SubSeq(ret.feature_data[i + 1], 1, context_window_size)
                     = CentredWindow(i)

\* An enumeration of at least two windows of a series with trimmed points.
C1_Witness ==
    /\ op = "preprocess_from_single_ts"
    /\ num_samples # None
    /\ num_samples[1] <= 0
    /\ ~stratify_targets
    /\ n_ignore_last > 0
    /\ Len(ret.feature_data) >= 2

\* The start indices chosen by the last call: those of enumeration, or the
\* draws the generator makes from its seed.
Chosen ==
    IF Windows < 1 THEN <<>>
    ELSE <<>> \o locations(num_samples[1], Windows, arg.seed, 0)

\* Entry s + 1: the feature vector of the window starting at s.
FeatureVectors ==
    <<>> \o [s \in 1..Windows |-> make_features(Trimmed, s - 1)]

StratifiedAs(locs, vectors) ==
    LET h == forecast_horizon
    IN  /\ Len(ret.feature_data) = h * Len(locs)
        /\ Len(ret.target_data) = h * Len(locs)
        /\ \A i \in 1..Len(locs) : \A j \in 0..(h - 1) :
              /\ ret.feature_data[(i - 1) * h + j + 1]
                     = Append(vectors[locs[i] + 1], <<j, 1>>)
              /\ ret.target_data[(i - 1) * h + j + 1]
                     = <<Target[locs[i] + context_window_size + j + 1]>>
              /\ ret.target_data[(i - 1) * h + j + 1][1]
                     = target_slice(Target, locs[i])[j + 1]

\* C2: in stratified mode the window number i of the chosen start indices
\* contributes the h consecutive samples i*h .. i*h + h - 1 (h times the one
\* sample of non-stratified mode); sample i*h + j is the window's feature
\* vector with j appended and the one-element target target[start + c + j],
\* the j-th element of the window's non-stratified target.
C2_Stratified ==
    (/\ op = "preprocess_from_single_ts"
     /\ stratify_targets
     /\ num_samples # None) =>
        /\ err = "none"
        /\ forecast_horizon >= 2
        /\ StratifiedAs(Chosen, FeatureVectors)

\* A stratified call that sampled, of a series with at least two windows.
C2_Witness ==
    /\ op = "preprocess_from_single_ts"
    /\ stratify_targets
    /\ num_samples # None
    /\ num_samples[1] > 0
    /\ Windows >= 2
    /\ Len(ret.target_data) = forecast_horizon * num_samples[1]

\* C5 as stated: a series is counted by get_num_samples exactly when
\* preprocess_from_single_ts returns a non-empty result for it.
C5_CountedIffWindows ==
    (op = "preprocess_from_single_ts" /\ err = "none") =>
        ((Len(ret.feature_data) > 0) <=> (n_time_series(<<Target>>) = 1))

\* C6: on a series whose trimmed length is below c + h,
\* preprocess_from_single_ts returns two empty lists and raises nothing,
\* whatever num_samples (unset included) and stratify_targets are; it calls
\* make_features never and changes no field.
C6_ShortSeries ==
    [][(/\ op' = "preprocess_from_single_ts"
        /\ Max2(0, Len(arg'.time_series) - n_ignore_last)
               < context_window_size + forecast_horizon) =>
           /\ err' = "none"
           /\ ret'.kind = "tuple"
           /\ ret'.feature_data = <<>>
           /\ ret'.target_data = <<>>
           /\ mf_calls' = 0
           /\ fields' = fields]_vars

\* A call on a short series while num_samples is still unset.
C6_Witness ==
    /\ op = "preprocess_from_single_ts"
    /\ Len(Target) > 0
    /\ Max2(0, Len(Target) - n_ignore_last)
           < context_window_size + forecast_horizon
    /\ num_samples = None
    /\ ret.kind = "tuple"

\* The valid samples of the series: one per start index 0..Windows - 1, or
\* one per start index and horizon offset when stratifying.
ValidSamples ==
    IF stratify_targets
    THEN {<<Append(make_features(Trimmed, s), <<j, 1>>),
            <<Target[s + context_window_size + j + 1]>>>> :
              s \in 0..(Windows - 1), j \in 0..(forecast_horizon - 1)}
    ELSE {<<make_features(Trimmed, s), HorizonAfter(s)>> :
              s \in 0..(Windows - 1)}

DrawnFrom(valid, count) ==
    /\ Len(ret.feature_data) = count
    /\ Len(ret.target_data) = count
    /\ \A k \in 1..count :
          <<ret.feature_data[k], ret.target_data[k]>> \in valid

\* C10: in sampling mode (num_samples = n > 0) a series with W >= 1 valid
\* windows yields n samples (n * forecast_horizon when stratifying), also
\* when n > W; each is the sample of a start index in 0..W - 1, so every
\* index read lies inside the series without its n_ignore_last last points.
C10_Sampling ==
    (/\ op = "preprocess_from_single_ts"
     /\ num_samples # None
     /\ num_samples[1] > 0
     /\ Windows >= 1) =>
        /\ err = "none"
        /\ (Windows - 1) + context_window_size + forecast_horizon
               <= Len(Target) - n_ignore_last
        /\ DrawnFrom(ValidSamples,
                     num_samples[1] * (IF stratify_targets
                                       THEN forecast_horizon ELSE 1))

\* A sampling call with more samples than windows, and trimmed points.
C10_Witness ==
    /\ op = "preprocess_from_single_ts"
    /\ num_samples # None
    /\ num_samples[1] > Windows
    /\ Windows >= 2
    /\ n_ignore_last > 0
    /\ Len(ret.feature_data) >= num_samples[1]

---------------------------------------------------------------------------
(* Properties of preprocess_from_list and __init__. *)

\* C7: preprocess_from_list and get_num_samples on a non-empty collection
\* with no series of length >= c + h end in ZeroDivisionError, and leave
\* num_samples, feature_data and target_data as they were.
C7_NoEligibleSeries ==
    [][(/\ op' \in {"preprocess_from_list", "get_num_samples"}
        /\ arg'.ts_list # <<>>
        /\ EligibleIn(arg'.ts_list) = 0) =>
           /\ err' = "ZeroDivisionError"
           /\ ret' = NoRet
           /\ num_samples' = num_samples
           /\ feature_data' = feature_data
           /\ target_data' = target_data]_vars

\* A failed preprocess_from_list on a preprocessor that holds earlier results.
C7_Witness ==
    /\ op = "preprocess_from_list"
    /\ arg.ts_list # <<>>
    /\ EligibleIn(arg.ts_list) = 0
    /\ err = "ZeroDivisionError"
    /\ num_samples # None
    /\ feature_data # None

\* The lists fd, td hold, from position offset + 1 on, the lists r of one
\* series.
HoldsAt(fd, td, offset, r) ==
    /\ Len(fd) >= offset + Len(r.feature_data)
    /\ Len(r.target_data) = Len(r.feature_data)
    /\ \A k \in 1..Len(r.feature_data) :
          /\ fd[offset + k] = r.feature_data[k]
          /\ td[offset + k] = r.target_data[k]

\* fd, td are the per-series results of ts_list from its i-th series on, in
\* order, from position offset + 1 to their end; pos draws were made before.
RECURSIVE ConcatenatedFrom(_, _, _, _, _, _)
ConcatenatedStep(fd, td, ts_list, i, offset, r) ==
    /\ HoldsAt(fd, td, offset, r)
    /\ ConcatenatedFrom(fd, td, ts_list, i + 1,
                        offset + Len(r.feature_data), r.draws)

ConcatenatedFrom(fd, td, ts_list, i, offset, pos) ==
    IF i > Len(ts_list)
    THEN Len(fd) = offset /\ Len(td) = offset
    ELSE ConcatenatedStep(fd, td, ts_list, i, offset,
             [preprocess_from_single_ts(ts_list[i], num_samples, arg.seed, pos)
                 EXCEPT !.draws = @ + pos])

\* What a successful preprocess_from_list leaves: the lists are stored and
\* nothing is returned, or returned; they are the concatenation, in
\* collection order, of the per-series results.
C8_Result ==
    (op = "preprocess_from_list" /\ err = "none") =>
        IF arg.flag
        THEN /\ ret = NoRet
             /\ feature_data # None
             /\ target_data # None
             /\ ConcatenatedFrom(feature_data[1], target_data[1],
                                 Expand(arg.ts_list), 1, 0, 0)
        ELSE /\ ret.kind = "tuple"
             /\ ConcatenatedFrom(ret.feature_data, ret.target_data,
                                 Expand(arg.ts_list), 1, 0, 0)

\* Only a successful preprocess_from_list with change_internal_variables
\* changes the stored lists.
C8_Frame ==
    \/ op' = "preprocess_from_list" /\ err' = "none" /\ arg'.flag
    \/ feature_data' = feature_data /\ target_data' = target_data

\* C8: the stored feature_data and target_data are those of the most recent
\* successful preprocess_from_list with change_internal_variables (replaced,
\* not appended), unset if there was none; with the flag false the call
\* returns the lists and stores nothing, with the flag true it returns
\* nothing; the lists have equal length and are the concatenation, in
\* collection order, of the per-series results.
C8_StoredOrReturned == []C8_Result /\ [][C8_Frame]_vars

\* A call that returned lists of several series, other than those stored by
\* an earlier call.
C8_Witness ==
    /\ op = "preprocess_from_list"
    /\ err = "none"
    /\ ~arg.flag
    /\ Len(Expand(arg.ts_list)) > 1
    /\ Len(ret.feature_data) > 1
    /\ feature_data # None
    /\ feature_data[1] # ret.feature_data
    /\ feature_data[1] # <<>>

\* C9: construction fails exactly when stratify_targets is true and
\* forecast_horizon is 1; a constructed preprocessor has num_samples,
\* feature_data and target_data unset, the num_samples argument being kept
\* in kwargs only.
C9_Construction ==
    (op = "__init__") =>
        /\ err \in {"none", "AssertionError"}
        /\ (err = "AssertionError") <=> (arg.stratify /\ arg.horizon = 1)
        /\ (err = "AssertionError") => ~constructed
        /\ (err = "none") =>
              /\ constructed
              /\ forecast_horizon = arg.horizon
              /\ stratify_targets = arg.stratify
              /\ kwargs = Some(arg.samples)
              /\ num_samples = None
              /\ feature_data = None
              /\ target_data = None

\* A stratifying preprocessor constructed with a num_samples argument.
C9_Witness ==
    /\ op = "__init__"
    /\ err = "none"
    /\ arg.stratify
    /\ arg.horizon > 1
    /\ arg.samples > 0
    /\ num_samples = None

---------------------------------------------------------------------------
(* Properties of make_features, read off the state its call leaves:        *)
(* arg.time_series is the series, arg.starting_index the index s, and      *)
(* ret.features the list returned.                                         *)

\* The part of the window s .. s + c - 1 that lies inside the series.
WindowInside ==
    SubSeq(Target, Max2(arg.starting_index, 0) + 1,
           arg.starting_index + context_window_size)

\* The mean-adjusted values of a window w.
LagsOf(w) == [q \in 1..Len(w) |-> <<Len(w) * w[q] - SumFrom(w, 1, Len(w)), Len(w)>>]

\* Mean, variance and length of a window w.
StatisticsOf(w) ==
    << <<SumFrom(w, 1, Len(w)), Len(w)>>,
       <<Len(w) * SumFrom([q \in 1..Len(w) |-> w[q] * w[q]], 1, Len(w))
             - SumFrom(w, 1, Len(w)) * SumFrom(w, 1, Len(w)),
         Len(w) * Len(w)>>,
       <<Len(w), 1>> >>

\* The null markers a negative starting index asks for.
NullMarkers == [q \in 1..Max2(-arg.starting_index, 0) |-> None]

\* C11: for -c < s <= L - c make_features returns a list of length c + 3:
\* -s null markers when s < 0, then the lag values of the part of the window
\* inside the series, then mean, standard deviation and window length, the
\* last equal to the number of lag entries that are not null.
C11_MakeFeatures ==
    (/\ op = "make_features"
     /\ -context_window_size < arg.starting_index
     /\ arg.starting_index <= Len(Target) - context_window_size) =>
        /\ err = "none"
        /\ Len(ret.features) = context_window_size + 3
        /\ ret.features = NullMarkers \o LagsOf(WindowInside)
                                      \o StatisticsOf(WindowInside)
        /\ ret.features[Len(ret.features)] =
               <<Cardinality({q \in 1..(Len(ret.features) - 3) :
                                 ret.features[q] # None}), 1>>

---------------------------------------------------------------------------
(* Properties of the number of samples of one preprocess_from_list call.   *)

\* The lists built by the call of Spec that the state records: returned, or
\* stored in the preprocessor.
ListsLength ==
    IF ret.kind = "tuple" THEN Len(ret.feature_data) ELSE Len(feature_data[1])

\* The lengths computed on the runs are the lengths of the lists built
\* series by series: every successful preprocess_from_list call of Spec
\* leaves lists of len_from_list(ts_list, num_samples) samples.
LengthsAgree ==
    (op = "preprocess_from_list" /\ err = "none") =>
        /\ num_samples # None
        /\ ListsLength = len_from_list(arg.ts_list, num_samples[1])
        /\ ret.kind = "tuple" => Len(ret.target_data) = ListsLength
        /\ ret.kind # "tuple" => Len(target_data[1]) = ListsLength

\* C12 as stated: without stratification, a preprocess_from_list call on a
\* collection with at least one eligible series produces at most 400000
\* (feature, target) pairs.
C12_Original ==
    (/\ op = "preprocess_from_list"
     /\ ~stratify_targets
     /\ EligibleIn(arg.ts_list) >= 1) =>
        (err = "none" /\ ret.kind = "lengths" /\ ret.value <= 400000)

\* C12 amended: the call produces at most 400000 pairs when at most 400000
\* series are eligible; with k > 400000 eligible series num_samples is 1 and
\* the call produces at most k pairs, one for each series with a window.
C12_Amended ==
    (/\ op = "preprocess_from_list"
     /\ ~stratify_targets
     /\ EligibleIn(arg.ts_list) >= 1) =>
        /\ err = "none"
        /\ ret.kind = "lengths"
        /\ EligibleIn(arg.ts_list) <= 400000 => ret.value <= 400000
        /\ EligibleIn(arg.ts_list) > 400000 =>
               /\ num_samples = Some(1)
               /\ ret.value <= EligibleIn(arg.ts_list)

\* A call on more than 400000 eligible series that produced more than 400000
\* pairs.
C12_Witness ==
    /\ op = "preprocess_from_list"
    /\ ~stratify_targets
    /\ EligibleIn(arg.ts_list) > 400000
    /\ err = "none"
    /\ num_samples = Some(1)
    /\ ret.value > 400000

====
